---- MODULE Spec2Model ----
(***************************************************************************)
(* Model of the scoring pipeline of api/registry/tasks.py: score_passport  *)
(* and the functions it calls, run by several workers over one shared      *)
(* Passport / Stamp / Score store.  Every database statement of the code   *)
(* is one atomic step of the worker that issues it.                        *)
(***************************************************************************)
EXTENDS Integers, Sequences, FiniteSets, TLC

(* ---------------------------------------------------------------- bounds *)
\* number of score_passport invocations (workers)
MaxRuns == 2
\* the clock runs over 0..MaxTime
MaxTime == 1
\* external resets of requires_calculation to true
MaxResets == 1
\* length of the credential list the data source returns
MaxStamps == 2

Runs == 1..MaxRuns
Times == 0..MaxTime
\* an instant later than every reading of the clock
Far == MaxTime + 1

(* ------------------------------------------------------- nullable values *)
\* Python's None and a present value, as an empty and a one-element set
None == {}
Some(v) == {v}
Get(o) == CHOOSE v \in o : TRUE

(* ------------------------------------------------------------ the inputs *)
\* addresses the task is invoked with; the store is keyed by lower(address).
\* Passport "0xb" is the other passport of the community: deduplication can name
\* it as affected
Addresses == {"0xA", "0xa"}
Keys == {"0xa", "0xb"}
\* str.lower, used for every Passport lookup
Lower(a) == IF a = "0xA" THEN "0xa" ELSE a

\* community.rule; "OTHER" stands for any value outside Rules
RuleValues == {"FIFO", "LIFO", "OTHER"}

\* stamp["credential"]["expirationDate"] is a string: `fmt` is the shape of the
\* string (with sub-second part, without it, or neither), `t` the instant it names
DateFrac(t) == [fmt |-> "frac", t |-> t]
DatePlain(t) == [fmt |-> "plain", t |-> t]
DateBad == [fmt |-> "bad", t |-> 0]

\* the credentials the data source can return: hash, provider, the verdict of
\* validate_credential (errors), the expirationDate and the verdict of verify_issuer
Credentials ==
    { [hash |-> "h1", provider |-> "p1", errors |-> FALSE, expirationDate |-> DateFrac(Far), issuer |-> TRUE],
      [hash |-> "h2", provider |-> "p2", errors |-> FALSE, expirationDate |-> DatePlain(0), issuer |-> TRUE],
      [hash |-> "h3", provider |-> "p3", errors |-> FALSE, expirationDate |-> DatePlain(Far), issuer |-> FALSE],
      [hash |-> "h4", provider |-> "p4", errors |-> FALSE, expirationDate |-> DateBad, issuer |-> TRUE],
      [hash |-> "h5", provider |-> "p5", errors |-> TRUE, expirationDate |-> DateFrac(Far), issuer |-> TRUE] }

\* len(passport_data["stamps"]) for the passports the data source returns
StampCounts == 0..MaxStamps

\* what scorer.compute_score returns for one passport: score and evidence list
ScoreDatas == { [score |-> 0, evidence |-> <<>>], [score |-> 1, evidence |-> <<"ev">>] }

(* ------------------------------------------------------------- the store *)
VARIABLES
    rule,         \* Community.rule of the one community
    now,          \* the clock read by datetime.now() and get_utc_time()
    passport,     \* key -> "absent" or the row's requires_calculation
    stamps,       \* key -> set of Stamp rows [hash, provider]
    score,        \* key -> the Score row (status "NOROW": there is none)
    pc,           \* run -> position in score_passport
    addr,         \* run -> address.lower() of the address argument
    pp,           \* run -> score_passport's local `passport` (None or Some(key))
    nstamps,      \* run -> number of credentials still to be handled (fetched, then deduplicated)
    stamp,        \* run -> the loop variable `stamp` of validate_and_save_stamps (None or Some(c))
    affected,     \* run -> affected passports still to be re-scored
    exc,          \* run -> the exception in flight; after the return, the one that was only logged
    saved,        \* run -> hashes this run has upserted (history)
    owners,       \* key -> load_passport_record calls that returned a passport since the last reset (history)
    resets,       \* number of external resets so far
    init          \* key -> the Passport row before the first call (history)

vars == <<rule, now, passport, stamps, score, pc, addr, pp, nstamps, stamp, affected,
          exc, saved, owners, resets, init>>
store == <<passport, stamps, score>>

NoRow == [status |-> "NOROW", score |-> None, last_score_timestamp |-> None,
          evidence |-> None, error |-> None]

(* ------------------------------------------------- functions of the code *)
\* a filter that matches requires_calculation=True only
NeedsCalculation_TrueOnly(v) == v = "true"

\* an UPDATE without the exclude: it matches every row of the key
NeedsCalculation_Any(v) == TRUE

\* .exclude(requires_calculation=False): the rows the claiming UPDATE matches
NeedsCalculation(v) == v \in {"true", "unset"}

\* requires_calculation of a row made by update_or_create without defaults
NewPassport == "unset"

\* datetime.strptime(s, "%Y-%m-%dT%H:%M:%S.%fZ"): None stands for ValueError
StrptimeFrac(d) == IF d.fmt = "frac" THEN Some(d.t) ELSE None
\* datetime.strptime(s, "%Y-%m-%dT%H:%M:%SZ"): None stands for ValueError
StrptimePlain(d) == IF d.fmt = "plain" THEN Some(d.t) ELSE None
\* the try / except ValueError around the two parses; None: ValueError leaves the loop
StampExpirationDate(d) ==
    IF StrptimeFrac(d) # None THEN StrptimeFrac(d) ELSE StrptimePlain(d)

\* an expiry test that also rejects a credential expiring at this very instant
StampIsExpired_AtOrBefore(t, n) == t <= n

\* stamp_is_expired = stamp_expiration_date < datetime.now()
StampIsExpired(t, n) == t < n

\* a condition that leaves out the issuer check
StampIsSaved_AnyIssuer(c, n) ==
    /\ ~c.errors
    /\ ~StampIsExpired(Get(StampExpirationDate(c.expirationDate)), n)

\* the condition under which Stamp.objects.update_or_create is called
StampIsSaved(c, n) ==
    /\ ~c.errors
    /\ ~StampIsExpired(Get(StampExpirationDate(c.expirationDate)), n)
    /\ c.issuer

StampRow(c) == [hash |-> c.hash, provider |-> c.provider]
\* Stamp.objects.update_or_create(hash=..., passport=..., defaults=...)
UpsertStamp(rows, c) == {x \in rows : x.hash # c.hash} \cup {StampRow(c)}

\* the exceptions raised in the pipeline
NoPassportException == [type |-> "APIException", detail |-> "No Passport found for this address.", str |-> "NoPassportException"]
InvalidRule == [type |-> "Exception", detail |-> "", str |-> "Invalid rule"]
ValueError == [type |-> "Exception", detail |-> "", str |-> "time data does not match format"]
ScorerError == [type |-> "Exception", detail |-> "", str |-> "scorer failed"]
DatabaseError == [type |-> "Exception", detail |-> "", str |-> "database error"]

\* one handler for both kinds of exception that records getattr(e, "detail", "<none>")
ErrorText_DetailOnly(e) == IF e.type = "APIException" THEN e.detail ELSE "<none>"

\* error=e.detail in the APIException handler, error=str(e) in the generic one
ErrorText(e) == IF e.type = "APIException" THEN e.detail ELSE e.str

\* the defaults of the two error handlers of score_passport
ErrorScore(e) ==
    [status |-> "ERROR", score |-> None, last_score_timestamp |-> None,
     evidence |-> None, error |-> Some(ErrorText(e))]

\* defaults that name the status only
ProcessingScore_StatusOnly(row) ==
    IF row.status = "NOROW"
    THEN [NoRow EXCEPT !.status = "PROCESSING"]
    ELSE [row EXCEPT !.status = "PROCESSING"]

\* update_or_create(passport=..., defaults=dict(score=None, status=PROCESSING)):
\* only the two named fields of an existing row are overwritten
ProcessingScore(row) ==
    IF row.status = "NOROW"
    THEN [NoRow EXCEPT !.status = "PROCESSING"]
    ELSE [row EXCEPT !.score = None, !.status = "PROCESSING"]

\* defaults that leave out last_score_timestamp
DoneScore_NoTimestamp(sd, t) ==
    [status |-> "DONE", score |-> Some(sd.score), last_score_timestamp |-> None,
     evidence |-> IF sd.evidence # <<>> THEN Some(Head(sd.evidence)) ELSE None,
     error |-> None]

\* the defaults of calculate_score's update_or_create
DoneScore(sd, t) ==
    [status |-> "DONE", score |-> Some(sd.score), last_score_timestamp |-> Some(t),
     evidence |-> IF sd.evidence # <<>> THEN Some(Head(sd.evidence)) ELSE None,
     error |-> None]

\* a lookup that falls back on fifo for a rule it does not know
Method_Default(rl) == Some(IF rl \in {"LIFO", "FIFO"} THEN rl ELSE "FIFO")

\* rule_map.get(passport.community.rule): None when the rule is not a key of rule_map
Method(rl) == IF rl \in {"LIFO", "FIFO"} THEN Some(rl) ELSE None

\* a loop that re-scores the affected passports under every rule
Rescored_AnyRule(rl, a) == a

\* `if passport.community.rule == Rules.FIFO.value: for passport in affected_passports`:
\* the passports the loop goes through
Rescored(rl, a) == IF rl = "FIFO" THEN a ELSE <<>>

\* a loop body that starts the pipeline again for the affected passport
CascadeNext_Reenter(rest, n) == "dedup"

\* where the FIFO loop goes on after one calculate_score: the next affected passport,
\* or out of process_deduplication into the validation loop
CascadeNext(rest, n) == IF rest # <<>> THEN "mark" ELSE IF n = 0 THEN "score" ELSE "for"

\* a delete without the passport filter
DeleteStamps_NoFilter(st, k) == [x \in DOMAIN st |-> {}]

\* Stamp.objects.filter(passport=passport).delete()
DeleteStamps(st, k) == [st EXCEPT ![k] = {}]

\* handlers that look the passport up by the address of the request
ErrorTargets_ByAddress(p, a) == {a}

\* `if passport:` in the two except clauses: the passports whose Score row the
\* handler writes, given the local `passport` and the lower-cased address
ErrorTargets(p, a) == p

\* the lists without repetition over a set
RECURSIVE Orderings(_)
Orderings(S) ==
    IF S = {} THEN {<<>>}
    ELSE UNION { {<<x>> \o t : t \in Orderings(S \ {x})} : x \in S }

\* fifo / lifo: how many of the n credentials are kept for passport k, and the other
\* passports affected
Deduplicate(k, n) ==
    { [stamps |-> d, affected |-> a] :
        d \in 0..n,
        a \in UNION { Orderings(A) : A \in SUBSET {o \in Keys \ {k} : passport[o] # "absent"} } }

\* where validate_and_save_stamps goes on with n credentials left to validate
AfterStamps(n) == IF n = 0 THEN "score" ELSE "for"

(* ------------------------------------------------------------------ Init *)
\* the Stamp row and the Score row an earlier run has left for a passport
EarlierStamps == {[hash |-> "h1", provider |-> "p1"]}
EarlierScore ==
    [status |-> "DONE", score |-> Some(1), last_score_timestamp |-> Some(0),
     evidence |-> None, error |-> None]

\* a passport that exists was either never scored or scored by an earlier run
Init ==
    /\ rule \in RuleValues
    /\ now = 0
    /\ passport \in [Keys -> {"absent", "true", "unset", "false"}]
    /\ passport["0xb"] \in {"absent", "false"}
    /\ \E scored \in SUBSET {k \in Keys : passport[k] # "absent"} :
         /\ stamps = [k \in Keys |-> IF k \in scored
                                     THEN EarlierStamps ELSE {}]
         /\ score = [k \in Keys |-> IF k \in scored
                                    THEN EarlierScore ELSE NoRow]
    /\ pc = [r \in Runs |-> "idle"]
    /\ addr = [r \in Runs |-> "0xa"]
    /\ pp = [r \in Runs |-> None]
    /\ nstamps = [r \in Runs |-> 0]
    /\ stamp = [r \in Runs |-> None]
    /\ affected = [r \in Runs |-> <<>>]
    /\ exc = [r \in Runs |-> None]
    /\ saved = [r \in Runs |-> {}]
    /\ owners = [k \in Keys |-> 0]
    /\ resets = 0
    /\ init = passport

(* --------------------------------------------------------------- actions *)
\* the task queue invokes score_passport(community_id, address); workers are
\* interchangeable, so they are started in the order of their numbers
Start(r) ==
    /\ pc[r] = "idle"
    /\ \A q \in Runs : q < r => pc[q] # "idle"
    /\ \E a \in Addresses : addr' = [addr EXCEPT ![r] = Lower(a)]
    /\ pc' = [pc EXCEPT ![r] = "update"]
    /\ UNCHANGED <<rule, now, store, pp, nstamps, stamp, affected, exc, saved,
                   owners, resets, init>>

\* load_passport_record: the UPDATE ... WHERE requires_calculation is not False
LoadPassportRecord_Update(r) ==
    /\ pc[r] = "update"
    /\ LET k == addr[r]
           num_passports_updated ==
               IF passport[k] # "absent" /\ NeedsCalculation(passport[k]) THEN 1 ELSE 0
       IN  IF num_passports_updated = 1
           THEN /\ passport' = [passport EXCEPT ![k] = "false"]
                /\ owners' = [owners EXCEPT ![k] = @ + 1]
                /\ pc' = [pc EXCEPT ![r] = "get"]
           ELSE /\ pc' = [pc EXCEPT ![r] = "exists"]
                /\ UNCHANGED <<passport, owners>>
    /\ UNCHANGED <<rule, now, stamps, score, addr, pp, nstamps, stamp, affected, exc,
                   saved, resets, init>>

\* load_passport_record: the database fails inside the claim
LoadPassportRecord_Raise(r) ==
    /\ pc[r] = "update"
    /\ exc' = [exc EXCEPT ![r] = Some(DatabaseError)]
    /\ pc' = [pc EXCEPT ![r] = "except"]
    /\ UNCHANGED <<rule, now, store, addr, pp, nstamps, stamp, affected, saved,
                   owners, resets, init>>

\* load_passport_record: Passport.objects.get after a successful update
LoadPassportRecord_Get(r) ==
    /\ pc[r] = "get"
    /\ pp' = [pp EXCEPT ![r] = Some(addr[r])]
    /\ pc' = [pc EXCEPT ![r] = "remove"]
    /\ UNCHANGED <<rule, now, store, addr, nstamps, stamp, affected, exc, saved,
                   owners, resets, init>>

\* load_passport_record: the .exists() query; with a row present it returns None
\* and score_passport returns
LoadPassportRecord_Exists(r) ==
    /\ pc[r] = "exists"
    /\ pc' = [pc EXCEPT ![r] =
                IF passport[addr[r]] = "absent" THEN "create" ELSE "done"]
    /\ UNCHANGED <<rule, now, store, addr, pp, nstamps, stamp, affected, exc, saved,
                   owners, resets, init>>

\* load_passport_record: update_or_create and `return db_passport`
LoadPassportRecord_Create(r) ==
    /\ pc[r] = "create"
    /\ LET k == addr[r]
       IN  /\ passport' = [passport EXCEPT ![k] =
                              IF @ = "absent" THEN NewPassport ELSE @]
           /\ pp' = [pp EXCEPT ![r] = Some(k)]
           /\ owners' = [owners EXCEPT ![k] = @ + 1]
    /\ pc' = [pc EXCEPT ![r] = "remove"]
    /\ UNCHANGED <<rule, now, stamps, score, addr, nstamps, stamp, affected, exc,
                   saved, resets, init>>

\* remove_existing_stamps_from_db
RemoveExistingStamps(r) ==
    /\ pc[r] = "remove"
    /\ stamps' = DeleteStamps(stamps, Get(pp[r]))
    /\ pc' = [pc EXCEPT ![r] = "fetch"]
    /\ UNCHANGED <<rule, now, passport, score, addr, pp, nstamps, stamp, affected, exc,
                   saved, owners, resets, init>>

\* load_passport_data: get_passport(address) returns nothing, or a passport
LoadPassportData(r) ==
    /\ pc[r] = "fetch"
    /\ \/ /\ exc' = [exc EXCEPT ![r] = Some(NoPassportException)]
          /\ pc' = [pc EXCEPT ![r] = "except"]
          /\ UNCHANGED nstamps
       \/ /\ \E n \in StampCounts : nstamps' = [nstamps EXCEPT ![r] = n]
          /\ pc' = [pc EXCEPT ![r] = "dedup"]
          /\ UNCHANGED exc
    /\ UNCHANGED <<rule, now, store, addr, pp, stamp, affected, saved, owners,
                   resets, init>>

\* process_deduplication up to the loop: rule_map lookup and the call of fifo / lifo
ProcessDeduplication(r) ==
    /\ pc[r] = "dedup"
    /\ IF Method(rule) = None
       THEN /\ exc' = [exc EXCEPT ![r] = Some(InvalidRule)]
            /\ pc' = [pc EXCEPT ![r] = "except"]
            /\ UNCHANGED <<nstamps, affected>>
       ELSE \E res \in Deduplicate(Get(pp[r]), nstamps[r]) :
              /\ nstamps' = [nstamps EXCEPT ![r] = res.stamps]
              /\ affected' = [affected EXCEPT ![r] = res.affected]
              /\ pc' = [pc EXCEPT ![r] = "iffifo"]
              /\ UNCHANGED exc
    /\ UNCHANGED <<rule, now, store, addr, pp, stamp, saved, owners, resets, init>>

\* process_deduplication: `if passport.community.rule == Rules.FIFO.value`; under
\* any other rule affected_passports is not read again
ProcessDeduplication_IfFifo(r) ==
    /\ pc[r] = "iffifo"
    /\ LET todo == Rescored(rule, affected[r])
       IN  /\ affected' = [affected EXCEPT ![r] = todo]
           /\ pc' = [pc EXCEPT ![r] =
                       IF todo # <<>> THEN "mark" ELSE AfterStamps(nstamps[r])]
    /\ UNCHANGED <<rule, now, store, addr, pp, nstamps, stamp, exc, saved, owners,
                   resets, init>>

\* the FIFO loop: Score.objects.update_or_create(..., status=PROCESSING)
Rescore_Mark(r) ==
    /\ pc[r] = "mark"
    /\ score' = [score EXCEPT ![Head(affected[r])] = ProcessingScore(@)]
    /\ pc' = [pc EXCEPT ![r] = "rescore"]
    /\ UNCHANGED <<rule, now, passport, stamps, addr, pp, nstamps, stamp, affected, exc,
                   saved, owners, resets, init>>

\* the FIFO loop: calculate_score(passport, passport.community_id); the scorer
\* returns a score or raises
Rescore_CalculateScore(r) ==
    /\ pc[r] = "rescore"
    /\ \/ /\ \E sd \in ScoreDatas :
               score' = [score EXCEPT ![Head(affected[r])] = DoneScore(sd, now)]
          /\ affected' = [affected EXCEPT ![r] = Tail(@)]
          /\ pc' = [pc EXCEPT ![r] = CascadeNext(Tail(affected[r]), nstamps[r])]
          /\ UNCHANGED exc
       \/ /\ exc' = [exc EXCEPT ![r] = Some(ScorerError)]
          /\ pc' = [pc EXCEPT ![r] = "except"]
          /\ UNCHANGED <<score, affected>>
    /\ UNCHANGED <<rule, now, passport, stamps, addr, pp, nstamps, stamp, saved,
                   owners, resets, init>>

\* validate_and_save_stamps: `for stamp in deduped_passport_data["stamps"]` takes
\* the next credential; nothing reads a credential before the loop reaches it, so
\* it is drawn here
ForStamp(r) ==
    /\ pc[r] = "for"
    /\ \E c \in Credentials : stamp' = [stamp EXCEPT ![r] = Some(c)]
    /\ nstamps' = [nstamps EXCEPT ![r] = @ - 1]
    /\ pc' = [pc EXCEPT ![r] = "validate"]
    /\ UNCHANGED <<rule, now, store, addr, pp, affected, exc, saved, owners,
                   resets, init>>

\* validate_and_save_stamps: the body of the loop for the credential `stamp`
ValidateAndSaveStamp(r) ==
    /\ pc[r] = "validate"
    /\ LET c == Get(stamp[r])
           k == Get(pp[r])
       IN  IF StampExpirationDate(c.expirationDate) = None
           THEN /\ exc' = [exc EXCEPT ![r] = Some(ValueError)]
                /\ pc' = [pc EXCEPT ![r] = "except"]
                /\ UNCHANGED <<stamps, saved>>
           ELSE /\ IF StampIsSaved(c, now)
                   THEN /\ stamps' = [stamps EXCEPT ![k] = UpsertStamp(@, c)]
                        /\ saved' = [saved EXCEPT ![r] = @ \cup {c.hash}]
                   ELSE UNCHANGED <<stamps, saved>>
                /\ pc' = [pc EXCEPT ![r] = AfterStamps(nstamps[r])]
                /\ UNCHANGED exc
    /\ UNCHANGED <<rule, now, passport, score, addr, pp, nstamps, stamp, affected,
                   owners, resets, init>>

\* calculate_score(passport, community_id) of score_passport, then its return
CalculateScore(r) ==
    /\ pc[r] = "score"
    /\ \/ /\ \E sd \in ScoreDatas :
               score' = [score EXCEPT ![Get(pp[r])] = DoneScore(sd, now)]
          /\ pc' = [pc EXCEPT ![r] = "done"]
          /\ stamp' = [stamp EXCEPT ![r] = None]
          /\ UNCHANGED exc
       \/ /\ exc' = [exc EXCEPT ![r] = Some(ScorerError)]
          /\ pc' = [pc EXCEPT ![r] = "except"]
          /\ UNCHANGED <<score, stamp>>
    /\ UNCHANGED <<rule, now, passport, stamps, addr, pp, nstamps, affected,
                   saved, owners, resets, init>>

\* the two except clauses of score_passport, then its return
HandleException(r) ==
    /\ pc[r] = "except"
    /\ score' = [k \in Keys |-> IF k \in ErrorTargets(pp[r], addr[r])
                                  THEN ErrorScore(Get(exc[r])) ELSE score[k]]
    /\ pc' = [pc EXCEPT ![r] = "done"]
    /\ nstamps' = [nstamps EXCEPT ![r] = 0]
    /\ stamp' = [stamp EXCEPT ![r] = None]
    /\ affected' = [affected EXCEPT ![r] = <<>>]
    /\ exc' = [exc EXCEPT ![r] = IF pp[r] # None THEN None ELSE @]
    /\ UNCHANGED <<rule, now, passport, stamps, addr, pp, saved, owners,
                   resets, init>>

\* an external event asks for a fresh score of passport k
Reset(k) ==
    /\ resets < MaxResets
    /\ passport[k] = "false"
    /\ passport' = [passport EXCEPT ![k] = "true"]
    /\ owners' = [owners EXCEPT ![k] = 0]
    /\ resets' = resets + 1
    /\ UNCHANGED <<rule, now, stamps, score, pc, addr, pp, nstamps, stamp, affected,
                   exc, saved, init>>

\* time passes
Tick ==
    /\ now < MaxTime
    /\ now' = now + 1
    /\ UNCHANGED <<rule, store, pc, addr, pp, nstamps, stamp, affected, exc, saved,
                   owners, resets, init>>

Next ==
    \/ \E r \in Runs : Start(r)
    \/ \E r \in Runs : LoadPassportRecord_Update(r)
    \/ \E r \in Runs : LoadPassportRecord_Raise(r)
    \/ \E r \in Runs : LoadPassportRecord_Get(r)
    \/ \E r \in Runs : LoadPassportRecord_Exists(r)
    \/ \E r \in Runs : LoadPassportRecord_Create(r)
    \/ \E r \in Runs : RemoveExistingStamps(r)
    \/ \E r \in Runs : LoadPassportData(r)
    \/ \E r \in Runs : ProcessDeduplication(r)
    \/ \E r \in Runs : ProcessDeduplication_IfFifo(r)
    \/ \E r \in Runs : Rescore_Mark(r)
    \/ \E r \in Runs : Rescore_CalculateScore(r)
    \/ \E r \in Runs : ForStamp(r)
    \/ \E r \in Runs : ValidateAndSaveStamp(r)
    \/ \E r \in Runs : CalculateScore(r)
    \/ \E r \in Runs : HandleException(r)
    \/ \E k \in Keys : Reset(k)
    \/ Tick

Spec == Init /\ [][Next]_vars

\* the statements of the invocation r of score_passport, once it has been made
RunNext(r) ==
    \/ LoadPassportRecord_Update(r)
    \/ LoadPassportRecord_Raise(r)
    \/ LoadPassportRecord_Get(r)
    \/ LoadPassportRecord_Exists(r)
    \/ LoadPassportRecord_Create(r)
    \/ RemoveExistingStamps(r)
    \/ LoadPassportData(r)
    \/ ProcessDeduplication(r)
    \/ ProcessDeduplication_IfFifo(r)
    \/ Rescore_Mark(r)
    \/ Rescore_CalculateScore(r)
    \/ ForStamp(r)
    \/ ValidateAndSaveStamp(r)
    \/ CalculateScore(r)
    \/ HandleException(r)

(* ---------------------------------------------------------------- claims *)
\* positions inside load_passport_record
ClaimPcs == {"update", "get", "exists", "create"}
\* the calls of load_passport_record for key k that have returned (not raised)
Returned(k) ==
    {r \in Runs : addr[r] = k /\ pc[r] \notin ClaimPcs \cup {"idle"}
                  /\ ~(pp[r] = None /\ exc[r] # None)}
\* the calls of load_passport_record for key k that have not come to an end
Claiming(k) == {r \in Runs : addr[r] = k /\ pc[r] \in ClaimPcs}

\* C1: when the Passport row exists with requires_calculation true or unset and
\* is not reset, then once every concurrent load_passport_record call for it has
\* come to an end, exactly one of the calls that returned has returned a passport
\* and all the others have returned None.
C1_ExactlyOneClaim ==
    \A k \in Keys :
        (/\ resets = 0
         /\ init[k] \in {"true", "unset"}
         /\ Returned(k) # {}
         /\ Claiming(k) = {})
        => Cardinality({r \in Returned(k) : pp[r] # None}) = 1

\* two calls for a row that was unset have returned, one with the passport, one with None
C1_Witness ==
    /\ init["0xa"] = "unset"
    /\ resets = 0
    /\ Cardinality(Returned("0xa")) = 2
    /\ Claiming("0xa") = {}
    /\ \E r, q \in Returned("0xa") : pp[r] # None /\ pp[q] = None

\* C2: whatever the Passport row was at the start (absent included), at most one
\* load_passport_record call returns a passport per generation of work, a
\* generation lasting until the flag is reset.
C2_AtMostOneOwnerPerGeneration == \A k \in Keys : owners[k] <= 1

\* C3: a load_passport_record call that finds no Passport row creates it in the
\* "needs work" state and returns None, and the run ends there.
C3_CreateReturnsNone ==
    [][\A r \in Runs :
         (pc[r] = "create" /\ pc'[r] # "create")
         => /\ pp'[r] = None
            /\ pc'[r] = "done"
            /\ NeedsCalculation(passport'[addr[r]])]_vars

\* the step in which run r leaves the except clause of score_passport
Handles(r) == pc[r] = "except" /\ pc'[r] # "except"
\* the step in which run r runs the body of the validation loop on `stamp`
Validates(r) == pc[r] = "validate" /\ pc'[r] # "validate"
\* the expiration instant of a credential whose expirationDate parses
Expiration(c) == Get(StampExpirationDate(c.expirationDate))
Parses(c) == c.expirationDate.fmt \in {"frac", "plain"}
Hashes(rows) == {x.hash : x \in rows}

\* C4: when a run that has claimed passport P catches an exception, it returns
\* leaving P's Score row with status ERROR, score null and the exception's
\* message (APIException detail, or the exception's string) as error.
C4_FailureIsRecorded ==
    [][\A r \in Runs :
         (Handles(r) /\ pp[r] # None)
         => LET e == Get(exc[r])
                row == score'[Get(pp[r])]
            IN  /\ pc'[r] = "done"
                /\ row.status = "ERROR"
                /\ row.score = None
                /\ row.error # None
                /\ row.error = Some(IF e.type = "APIException" THEN e.detail ELSE e.str)]_vars

\* a run that claimed "0xa" has returned after a credential failed to parse, and
\* the Score row carries the ValueError's string
C4_Witness ==
    \E r \in Runs :
        /\ pc[r] = "done"
        /\ pp[r] = Some("0xa")
        /\ score["0xa"].status = "ERROR"
        /\ score["0xa"].error = Some(ValueError.str)

\* C5: under FIFO, once the runs have returned no Score row is left with status
\* PROCESSING: every row a cascade marked has been re-computed to DONE or ERROR.
C5_NoProcessingLeft ==
    (rule = "FIFO" /\ \A r \in Runs : pc[r] \in {"idle", "done"})
    => \A k \in Keys : score[k].status # "PROCESSING"

\* the runs that have got hold of passport k
Holders(k) == {r \in Runs : pp[r] = Some(k)}

\* C6: whenever no run is in progress, the Stamp rows of a passport that some run
\* has worked on are exactly the credentials one single run has persisted.
C6_StampsOfOneRun ==
    (\A r \in Runs : pc[r] \in {"idle", "done"})
    => \A k \in Keys :
         Holders(k) # {} => \E r \in Holders(k) : Hashes(stamps[k]) = saved[r]

\* C7: every Score row with status DONE has a score and a last_score_timestamp
\* and no error; every Score row with status ERROR has no score and an error.
C7_ScoreRowInvariant ==
    \A k \in Keys :
        /\ score[k].status = "DONE"
           => /\ score[k].score # None
              /\ score[k].last_score_timestamp # None
              /\ score[k].error = None
        /\ score[k].status = "ERROR"
           => /\ score[k].score = None
              /\ score[k].error # None

\* the cascade of a run has re-computed the Score of "0xb" at time 1 and the run
\* itself has ended with an ERROR row for "0xa"
C7_Witness ==
    /\ score["0xa"].status = "ERROR"
    /\ score["0xb"].status = "DONE"
    /\ score["0xb"].last_score_timestamp = Some(1)
    /\ \A r \in Runs : pc[r] \in {"idle", "done"}

\* C8 as stated: a credential whose expiration instant is at or before now is
\* rejected, no Stamp row is persisted for it.
C8_RejectedAtOrBeforeNow ==
    [][\A r \in Runs :
         (Validates(r) /\ Parses(Get(stamp[r])) /\ Expiration(Get(stamp[r])) <= now)
         => /\ stamps' = stamps
            /\ saved' = saved]_vars

\* C8 as amended: a credential is rejected as expired exactly when its expiration
\* instant is strictly before now; one that expires at this very instant, has no
\* verifier errors and a trusted issuer is persisted.
C8_RejectedBeforeNow ==
    [][\A r \in Runs :
         (Validates(r) /\ Parses(Get(stamp[r])))
         => LET c == Get(stamp[r])
                k == Get(pp[r])
            IN  /\ Expiration(c) < now => (stamps' = stamps /\ saved' = saved)
                /\ (Expiration(c) = now /\ ~c.errors /\ c.issuer)
                   => (StampRow(c) \in stamps'[k] /\ c.hash \in saved'[r])]_vars

\* a run has persisted, at time 0, the credential that expires at time 0
C8_Witness ==
    \E r \in Runs :
        /\ now = 0
        /\ "h2" \in saved[r]
        /\ [hash |-> "h2", provider |-> "p2"] \in stamps["0xa"]

\* C9: a credential whose expirationDate parses in neither format is skipped: no
\* Stamp row is written for it, the loop goes on and the run does not fail.
C9_UnparsableIsSkipped ==
    [][\A r \in Runs :
         (Validates(r) /\ ~Parses(Get(stamp[r])))
         => /\ pc'[r] \in {"for", "score"}
            /\ stamps' = stamps]_vars

\* C10: the validation loop persists a credential exactly when it has no
\* verifier errors, is not expired and has a trusted issuer; a rejected credential
\* changes no Stamp row and does not fail the run; when the loop of a run that is
\* the only one to hold the passport ends, the passport's Stamp rows are exactly
\* the credentials it persisted, and a run whose scorer returns ends with DONE.
C10_ValidStampsPersisted ==
    [][\A r \in Runs :
         /\ (Validates(r) /\ Parses(Get(stamp[r])))
            => LET c == Get(stamp[r])
                   k == Get(pp[r])
                   valid == ~c.errors /\ c.issuer /\ ~(Expiration(c) < now)
               IN  /\ pc'[r] \in {"for", "score"}
                   /\ valid => /\ stamps'[k] = {x \in stamps[k] : x.hash # c.hash}
                                                  \cup {StampRow(c)}
                               /\ saved'[r] = saved[r] \cup {c.hash}
                   /\ ~valid => (stamps' = stamps /\ saved' = saved)
         /\ (pc[r] # "score" /\ pc'[r] = "score" /\ Holders(Get(pp[r])) = {r})
            => Hashes(stamps'[Get(pp[r])]) = saved'[r]
         /\ (pc[r] = "score" /\ pc'[r] = "done")
            => score'[Get(pp[r])].status = "DONE"]_vars

\* the loop of the only run on "0xa" has ended: the trusted "h1" is persisted and
\* the last credential, from an untrusted issuer, is not
C10_Witness ==
    \E r \in Runs :
        /\ pc[r] = "score"
        /\ Holders("0xa") = {r}
        /\ stamp[r] # None
        /\ ~Get(stamp[r]).issuer
        /\ saved[r] = {"h1"}
        /\ Hashes(stamps["0xa"]) = {"h1"}

\* C11: when the data source returns nothing for the address of a claimed
\* passport, the run returns leaving the passport's Score row with status ERROR,
\* score null and an error, having written no Stamp row, and the passport has zero
\* Stamp rows.
C11_NoDataLeavesNoStamps ==
    [][\A r \in Runs :
         (Handles(r) /\ pp[r] # None /\ exc[r] = Some(NoPassportException))
         => LET k == Get(pp[r])
            IN  /\ score'[k].status = "ERROR"
                /\ score'[k].score = None
                /\ score'[k].error # None
                /\ saved[r] = {}
                /\ stamps'[k] = {}]_vars

\* C12: a run whose claiming UPDATE finds the Passport row present with
\* requires_calculation false goes to the existence check (or fails in the claim),
\* finds the row and returns: none of its steps changes a Passport, Stamp or
\* Score row, it never holds a passport and so never reaches the data source or
\* the scorer.
C12_NotDueIsNoOp ==
    [][\A r \in Runs :
         /\ (pc[r] = "update" /\ pc'[r] # "update" /\ passport[addr[r]] = "false")
            => /\ pc'[r] \in {"exists", "except"}
               /\ store' = store
               /\ pp'[r] = None
         /\ (pc[r] = "exists" /\ pc'[r] # "exists" /\ passport[addr[r]] # "absent")
            => /\ pc'[r] = "done"
               /\ store' = store
               /\ pp'[r] = None
         /\ (Handles(r) /\ pp[r] = None)
            => /\ pc'[r] = "done"
               /\ store' = store]_vars

\* the one run on a passport that an earlier run had scored DONE and left with
\* the flag false has returned without a passport, and the rows are as they were
C12_Witness ==
    /\ init["0xa"] = "false"
    /\ resets = 0
    /\ pc[1] = "done"
    /\ pc[2] = "idle"
    /\ pp[1] = None
    /\ exc[1] = None
    /\ passport["0xa"] = "false"
    /\ score["0xa"] = EarlierScore
    /\ stamps["0xa"] = EarlierStamps

\* C13: full replace. When a run that has claimed a passport returns from the
\* scorer, every Stamp row of the passport is a credential this run has validated
\* and persisted: no row of an earlier run is left, and when the run had no
\* credential to validate the passport has zero Stamp rows.
C13_FullReplace ==
    [][\A r \in Runs :
         (pc[r] = "score" /\ pc'[r] = "done")
         => LET k == Get(pp[r])
            IN  /\ stamp[r] = None => stamps'[k] = {}
                /\ Hashes(stamps'[k]) \subseteq saved[r]]_vars

\* the step in which run r leaves position p
Leaves(r, p) == pc[r] = p /\ pc'[r] # p

C15_LifoLeavesAffectedScores ==
    [][\A r \in Runs :
         rule = "LIFO"
         => /\ Leaves(r, "iffifo") => /\ pc'[r] \in {"for", "score"}
                                      /\ score' = score
            /\ pc'[r] \notin {"mark", "rescore"}
            /\ pc'[r] # pc[r] => \A k \in Keys \ {addr[r]} : score'[k] = score[k]]_vars

\* under LIFO deduplication has returned "0xb" as affected to a run on "0xa", and
\* the Score row of "0xb" is the one the earlier run left
C15_Witness ==
    \E r \in Runs :
        /\ rule = "LIFO"
        /\ pc[r] = "iffifo"
        /\ pp[r] = Some("0xa")
        /\ affected[r] = <<"0xb">>
        /\ score["0xb"] = EarlierScore

\* C16: an exception raised inside load_passport_record, before the run holds a
\* passport, is caught and the run returns: neither the raising step nor the
\* handler creates or changes a Score row or deletes or writes a Stamp row.
C16_UnclaimedFailureIsSwallowed ==
    [][\A r \in Runs :
         /\ (pc[r] \in ClaimPcs /\ pc'[r] = "except")
            => /\ pp'[r] = None
               /\ store' = store
         /\ (Handles(r) /\ pp[r] = None)
            => /\ pc'[r] = "done"
               /\ score' = score
               /\ stamps' = stamps
               /\ saved'[r] = {}]_vars

\* the only run, on a passport that has never been scored, has failed inside the
\* claim and returned: there is no Score row and the flag still asks for work
C16_Witness ==
    /\ pc[1] = "done"
    /\ pc[2] = "idle"
    /\ pp[1] = None
    /\ exc[1] = Some(DatabaseError)
    /\ passport["0xa"] = "true"
    /\ score["0xa"] = NoRow
    /\ stamps["0xa"] = {}

\* C17: when the community's rule is neither FIFO nor LIFO, a run that reaches
\* process_deduplication raises there without calling a strategy: it never enters
\* the cascade, the validation loop or the scorer, it persists no Stamp row and
\* none is left for its passport, no step of it touches the Score row of another
\* passport, and it returns leaving its passport's Score row ERROR with an error.
C17_InvalidRuleFailsFast ==
    [][\A r \in Runs :
         rule \notin {"FIFO", "LIFO"}
         => /\ Leaves(r, "dedup") => /\ pc'[r] = "except"
                                     /\ exc'[r] = Some(InvalidRule)
                                     /\ store' = store
            /\ pc'[r] \notin {"iffifo", "mark", "rescore", "for", "validate", "score"}
            /\ pc'[r] # pc[r] => \A k \in Keys \ {addr[r]} : score'[k] = score[k]
            /\ (Handles(r) /\ pp[r] # None)
               => LET k == Get(pp[r])
                  IN  /\ pc'[r] = "done"
                      /\ score'[k].status = "ERROR"
                      /\ score'[k].score = None
                      /\ score'[k].error # None
                      /\ saved[r] = {}
                      /\ stamps'[k] = {}]_vars

\* with an unknown rule a run on "0xa" has returned with the error of the rule
\* lookup, and the rows of "0xb" are those of the earlier run
C17_Witness ==
    \E r \in Runs :
        /\ rule = "OTHER"
        /\ pc[r] = "done"
        /\ pp[r] = Some("0xa")
        /\ score["0xa"].status = "ERROR"
        /\ score["0xa"].error = Some(InvalidRule.str)
        /\ stamps["0xa"] = {}
        /\ score["0xb"] = EarlierScore
        /\ stamps["0xb"] = EarlierStamps

\* C18: apart from an external reset, requires_calculation of an existing row
\* changes only from true or unset to false, in the claiming UPDATE of a run that
\* has not yet touched a Stamp or Score row; and once a run that held a passport
\* has returned leaving its Score ERROR, with no reset of the flag, every run that
\* then comes to its claim for that key gets nothing and changes no row.
C18_NoRetryUntilReset ==
    [][/\ \A k \in Keys :
            (passport'[k] # passport[k] /\ passport[k] # "absent" /\ resets' = resets)
            => /\ NeedsCalculation(passport[k])
               /\ passport'[k] = "false"
               /\ \E r \in Runs : /\ Leaves(r, "update")
                                   /\ addr[r] = k
                                   /\ pp[r] = None
                                   /\ saved[r] = {}
       /\ \A r, q \in Runs :
            (/\ pc[r] = "done"
             /\ pp[r] # None
             /\ score[addr[r]].status = "ERROR"
             /\ resets' = 0
             /\ addr[q] = addr[r]
             /\ Leaves(q, "update"))
            => /\ pc'[q] \in {"exists", "except"}
               /\ store' = store]_vars

\* an upper bound of the number of statements a run still has to execute at
\* position p with a affected passports and n credentials left; deduplication
\* returns at most the other passports as affected and at most the fetched
\* credentials
StepsLeft(p, a, n) ==
    LET others == Cardinality(Keys) - 1
        claimed == 2 * others + 2 * MaxStamps + 7
    IN  CASE p = "done" -> 0
          [] p = "except" -> 1
          [] p = "score" -> 2
          [] p = "for" -> 2 * n + 2
          [] p = "validate" -> 2 * n + 3
          [] p = "rescore" -> 2 * a + 2 * n + 3
          [] p = "mark" -> 2 * a + 2 * n + 4
          [] p = "iffifo" -> 2 * a + 2 * n + 5
          [] p = "dedup" -> 2 * others + 2 * n + 6
          [] p = "fetch" -> claimed
          [] p = "remove" -> claimed + 1
          [] p \in {"get", "create"} -> claimed + 2
          [] p = "exists" -> claimed + 3
          [] p = "update" -> claimed + 4
          [] OTHER -> claimed + 5

\* C19: every invocation of score_passport comes to its return. A run that has
\* not returned always has a statement to execute, and every statement it executes
\* lowers a bound (a natural number) on the statements it has left, so it returns
\* after finitely many of them. In the FIFO loop each calculate_score takes one
\* passport off the affected list and goes on to the next affected passport, to
\* the run's own credentials or to the handler, never back into deduplication or
\* an earlier part of the pipeline, and the run keeps its own passport.
C19_Terminates ==
    /\ [](\A r \in Runs : pc[r] \notin {"idle", "done"} => ENABLED RunNext(r))
    /\ [][\A r \in Runs :
            /\ pc'[r] # pc[r]
               => StepsLeft(pc'[r], Len(affected'[r]), nstamps'[r])
                    < StepsLeft(pc[r], Len(affected[r]), nstamps[r])
            /\ Leaves(r, "rescore")
               => /\ pc'[r] \in {"mark", "for", "score", "except"}
                  /\ pc'[r] # "except" => Len(affected'[r]) = Len(affected[r]) - 1
                  /\ pp'[r] = pp[r]]_vars

\* under FIFO a run on "0xa" has returned DONE after its cascade re-computed the
\* Score of "0xb" and its validation loop persisted two credentials
C19_Witness ==
    \E r \in Runs :
        /\ rule = "FIFO"
        /\ pc[r] = "done"
        /\ pp[r] = Some("0xa")
        /\ score["0xa"].status = "DONE"
        /\ score["0xb"].status = "DONE"
        /\ score["0xb"].score = Some(0)
        /\ saved[r] = {"h1", "h2"}

\* the passports in a list of affected passports
Range(f) == {f[i] : i \in DOMAIN f}

====
